---- MODULE Spec2Model ----
(***************************************************************************)
(* Streaming medallion pipeline for patient vitals                         *)
(* (src/dataflow/streaming_medallion_pipeline.py).                         *)
(*                                                                         *)
(* Pub/Sub bytes -> utf-8 decode -> 60 s fixed windows -> bronze sink;     *)
(* -> parse_json -> is_valid_record -> enrich_record -> 60 s fixed windows *)
(* -> silver sink; -> key by patient_id -> GroupByKey -> aggregated_records*)
(* -> gold sink.                                                           *)
(*                                                                         *)
(* Python numbers are modelled as IEEE-754 binary64 values (sign, 53-bit   *)
(* mantissa, binary exponent) with round-to-nearest-even, the arithmetic   *)
(* of CPython's float.  An int operand below 2^53 is carried as the equal  *)
(* float: in the ranges used here int sums are exact and int/int true      *)
(* division is correctly rounded, so the results are the same values.      *)
(* Mantissas are little-endian sequences of 14-bit limbs.                  *)
(***************************************************************************)
EXTENDS Integers, Sequences, FiniteSets, Bags, TLC

VARIABLES
  clock,      \* processing time of the runner, in seconds
  sub,        \* messages published to the subscription, not yet pulled
  published,  \* number of messages published so far
  pulled,     \* messages pulled by ReadFromPubSub
  bronze,     \* bag of elements handed to "Write Bronze Data to GCS"
  silver,     \* bag of elements handed to "Write Silver Data to GCS"
  gbk,        \* elements buffered by "Group by Patient ID"
  fired,      \* (window, key) panes already emitted by GroupByKey
  gold,       \* bag of rows handed to "Write to BigQuery"
  failed,     \* an exception escaped a transform; the pipeline run is over
  vText,      \* validator harness: the JSON text under test
  vOut,       \* validator harness: "pending" or the boolean returned
  heap,       \* enricher harness: object id -> dict contents
  before,     \* enricher harness: contents of each dict before any call
  ret,        \* enricher harness: object id -> id returned by enrich_record
  aKey,       \* aggregator harness: the group key
  aGroup,     \* aggregator harness: the grouped records, in iteration order
  aOut        \* aggregator harness: iteration orders tried -> summary

pipeVars == <<clock, sub, published, pulled, bronze, silver, gbk, fired, gold, failed>>
validVars == <<vText, vOut>>
enrichVars == <<heap, before, ret>>
aggVars == <<aKey, aGroup, aOut>>
vars == <<pipeVars, validVars, enrichVars, aggVars>>

(***************************************************************************)
(* Bounds of the model.                                                    *)
(***************************************************************************)
MaxMsgs == 2
MaxWindow == 1
MaxGroup == 3

(***************************************************************************)
(* Unsigned big integers: little-endian limb sequences, no high zero limb. *)
(* The arithmetic is written as functions, so that an argument is a value  *)
(* by the time the body looks at it.                                       *)
(***************************************************************************)
LimbBits == 14
LimbBase == 16384
MantBits == 53
DivGuardBits == 28

Big == Seq(Nat)

BTrim[a \in Big] ==
  IF a = <<>> THEN a
  ELSE IF a[Len(a)] = 0 THEN BTrim[SubSeq(a, 1, Len(a) - 1)] ELSE a

BFromInt[n \in Nat] ==
  IF n = 0 THEN <<>> ELSE <<n % LimbBase>> \o BFromInt[n \div LimbBase]

Limb(a, i) == IF i <= Len(a) THEN a[i] ELSE 0

BAddFrom[a \in Big, b \in Big, i \in Nat, c \in Nat] ==
  IF i > Len(a) /\ i > Len(b)
  THEN (IF c = 0 THEN <<>> ELSE <<c>>)
  ELSE <<(Limb(a, i) + Limb(b, i) + c) % LimbBase>>
         \o BAddFrom[a, b, i + 1, (Limb(a, i) + Limb(b, i) + c) \div LimbBase]

BAdd[a \in Big, b \in Big] == BAddFrom[a, b, 1, 0]

BSubFrom[a \in Big, b \in Big, i \in Nat, br \in Nat] ==
  IF i > Len(a) THEN <<>>
  ELSE IF a[i] - Limb(b, i) - br < 0
       THEN <<a[i] - Limb(b, i) - br + LimbBase>> \o BSubFrom[a, b, i + 1, 1]
       ELSE <<a[i] - Limb(b, i) - br>> \o BSubFrom[a, b, i + 1, 0]

\* a - b for a >= b
BSub[a \in Big, b \in Big] == BTrim[BSubFrom[a, b, 1, 0]]

BCmpFrom[a \in Big, b \in Big, i \in Nat] ==
  IF i = 0 THEN 0
  ELSE IF a[i] < b[i] THEN -1
  ELSE IF a[i] > b[i] THEN 1
  ELSE BCmpFrom[a, b, i - 1]

BCmp[a \in Big, b \in Big] ==
  IF Len(a) < Len(b) THEN -1
  ELSE IF Len(a) > Len(b) THEN 1
  ELSE BCmpFrom[a, b, Len(a)]

BMulSmallFrom[a \in Big, k \in Nat, i \in Nat, c \in Nat] ==
  IF i > Len(a) THEN (IF c = 0 THEN <<>> ELSE <<c>>)
  ELSE <<(a[i] * k + c) % LimbBase>>
         \o BMulSmallFrom[a, k, i + 1, (a[i] * k + c) \div LimbBase]

\* a * k for k < 2^16
BMulSmall[a \in Big, k \in Nat] == BTrim[BMulSmallFrom[a, k, 1, 0]]

Zeros(n) == [i \in 1..n |-> 0]

BShlLimbs[a \in Big, n \in Nat] == IF a = <<>> THEN a ELSE Zeros(n) \o a

BMulFrom[a \in Big, b \in Big, i \in Nat] ==
  IF i > Len(b) THEN <<>>
  ELSE BAdd[BShlLimbs[BMulSmall[a, b[i]], i - 1], BMulFrom[a, b, i + 1]]

BMul[a \in Big, b \in Big] == BTrim[BMulFrom[a, b, 1]]

QuotRem == [q : Big, r : Nat]

BDivJoin[rest \in QuotRem, digit \in Nat] ==
  [q |-> Append(rest.q, digit), r |-> rest.r]

BDivSmallFrom[a \in Big, d \in Nat, i \in Nat, r \in Nat] ==
  IF i = 0 THEN [q |-> <<>>, r |-> r]
  ELSE BDivJoin[BDivSmallFrom[a, d, i - 1, (r * LimbBase + a[i]) % d],
                (r * LimbBase + a[i]) \div d]

BDivTrim[qr \in QuotRem] == [q |-> BTrim[qr.q], r |-> qr.r]

\* quotient and remainder of a by d, for 0 < d < 2^16
BDivSmall[a \in Big, d \in Nat] == BDivTrim[BDivSmallFrom[a, d, Len(a), 0]]

IntBits[n \in Nat] == IF n = 0 THEN 0 ELSE 1 + IntBits[n \div 2]

BitLen[a \in Big] ==
  IF a = <<>> THEN 0 ELSE LimbBits * (Len(a) - 1) + IntBits[a[Len(a)]]

BShl[a \in Big, k \in Nat] ==
  BShlLimbs[BMulSmall[a, 2 ^ (k % LimbBits)], k \div LimbBits]

BShr[a \in Big, k \in Nat] ==
  IF k \div LimbBits >= Len(a) THEN <<>>
  ELSE BDivSmall[SubSeq(a, (k \div LimbBits) + 1, Len(a)), 2 ^ (k % LimbBits)].q

BOdd(a) == a # <<>> /\ a[1] % 2 = 1

(***************************************************************************)
(* binary64 values [neg, m, e] = (-1)^neg * m * 2^e with m of exactly 53   *)
(* bits, or zero.  FRound rounds m * 2^e (plus a positive residue below    *)
(* one unit of m when sticky) to nearest, ties to even.  The values of the *)
(* pipeline stay far inside the normal range, so there is no overflow or   *)
(* subnormal case.                                                         *)
(***************************************************************************)
Float == [neg : BOOLEAN, m : Big, e : Int]

FZero == [neg |-> FALSE, m |-> <<>>, e |-> 0]

\* q (53 bits, or 54 after a carry out of the rounding) at exponent e
FRoundCarry[q \in Big, e \in Int] ==
  IF BitLen[q] > MantBits
  THEN [neg |-> FALSE, m |-> BShr[q, 1], e |-> e + 1]
  ELSE [neg |-> FALSE, m |-> q, e |-> e]

\* q rounded up when the part cut off is above half a unit (c > 0), or is
\* half a unit (c = 0) with a residue behind it or with q odd
FRoundUp[q \in Big, e \in Int, c \in Int, sticky \in BOOLEAN] ==
  FRoundCarry[IF c > 0 \/ (c = 0 /\ (sticky \/ BOdd(q))) THEN BAdd[q, <<1>>] ELSE q, e]

\* m cut to its top 53 bits q = m >> k, rounded by the k bits cut off
FRoundCut[m \in Big, q \in Big, k \in Nat, e \in Int, sticky \in BOOLEAN] ==
  FRoundUp[q, e + k, BCmp[BSub[m, BShl[q, k]], BShl[<<1>>, k - 1]], sticky]

FRoundLen[m \in Big, L \in Nat, e \in Int, sticky \in BOOLEAN] ==
  IF L = 0 THEN FZero
  ELSE IF L <= MantBits
  THEN [neg |-> FALSE, m |-> BShl[m, MantBits - L], e |-> e - (MantBits - L)]
  ELSE FRoundCut[m, BShr[m, L - MantBits], L - MantBits, e, sticky]

FRound[m \in Big, e \in Int, sticky \in BOOLEAN] == FRoundLen[m, BitLen[m], e, sticky]

FFromInt[n \in Int] ==
  [FRound[BFromInt[IF n < 0 THEN -n ELSE n], 0, FALSE] EXCEPT !.neg = n < 0]

IntMin(a, b) == IF a < b THEN a ELSE b

\* x + y for x, y >= 0
FAdd[x \in Float, y \in Float] ==
  IF x.m = <<>> THEN y
  ELSE IF y.m = <<>> THEN x
  ELSE FRound[BAdd[BShl[x.m, x.e - IntMin(x.e, y.e)], BShl[y.m, y.e - IntMin(x.e, y.e)]],
              IntMin(x.e, y.e), FALSE]

\* x - y for x >= y >= 0
FSub[x \in Float, y \in Float] ==
  IF y.m = <<>> THEN x
  ELSE FRound[BSub[BShl[x.m, x.e - IntMin(x.e, y.e)], BShl[y.m, y.e - IntMin(x.e, y.e)]],
              IntMin(x.e, y.e), FALSE]

\* x * y for x, y >= 0
FMul[x \in Float, y \in Float] == FRound[BMul[x.m, y.m], x.e + y.e, FALSE]

FDivRound[qr \in QuotRem, e \in Int, neg \in BOOLEAN] ==
  IF qr.q = <<>> THEN FZero
  ELSE [FRound[qr.q, e, qr.r # 0] EXCEPT !.neg = neg]

\* x scaled by 2^p
FScale[x \in Float, p \in Int] == IF x.m = <<>> THEN x ELSE [x EXCEPT !.e = @ + p]

\* x / d for an integer divisor 0 < d < 2^16
FDivInt[x \in Float, d \in Nat] ==
  FDivRound[BDivSmall[BShl[x.m, DivGuardBits], d], x.e - DivGuardBits, x.neg]

\* the float nearest to the decimal n/d: a float literal of the source, or
\* a number token read by json.loads
FDec[n \in Int, d \in Nat] == FDivInt[FFromInt[n], d]

FMagLt[x \in Float, y \in Float] ==
  IF y.m = <<>> THEN FALSE
  ELSE IF x.m = <<>> THEN TRUE
  ELSE x.e < y.e \/ (x.e = y.e /\ BCmp[x.m, y.m] < 0)

FLt[x \in Float, y \in Float] ==
  IF x.neg /\ ~y.neg THEN TRUE
  ELSE IF ~x.neg /\ y.neg THEN FALSE
  ELSE IF x.neg THEN FMagLt[y, x]
  ELSE FMagLt[x, y]

FLe[x \in Float, y \in Float] == ~FLt[y, x]

(***************************************************************************)
(* Python values.  A dict is modelled with the eight keys the program      *)
(* uses; PyAbsent marks a key the dict does not have.                      *)
(***************************************************************************)
PyNone == [t |-> "none"]
PyAbsent == [t |-> "absent"]
PyList == [t |-> "list"]
PyStr(s) == [t |-> "str", s |-> s]
PyNum(f) == [t |-> "num", f |-> f]
PyDict(d) == [t |-> "dict", d |-> d]

VitalKeys == {"heart_rate", "spo2", "temperature", "bp_systolic", "bp_diastolic"}
InputKeys == {"patient_id"} \cup VitalKeys

(***************************************************************************)
(* Message payloads.  The bytes of a message either are valid UTF-8 or are *)
(* not; a decoded text either is well-formed JSON or is not; a JSON        *)
(* document is null, an array or an object whose members are absent, null, *)
(* strings or number tokens.  The number token [n, d, p] is the decimal    *)
(* numeral of n/d * 2^p.                                                   *)
(***************************************************************************)
JNull == [j |-> "null"]
JAbsent == [j |-> "absent"]
JArray == [j |-> "array"]
JStr(s) == [j |-> "string", s |-> s]
JNum(n, d, p) == [j |-> "number", n |-> n, d |-> d, p |-> p]
JInt(n) == JNum(n, 1, 0)
JObject(pid, hr, spo2, temp, sys, dia) ==
  [j |-> "object",
   members |-> [patient_id |-> pid, heart_rate |-> hr, spo2 |-> spo2,
                temperature |-> temp, bp_systolic |-> sys, bp_diastolic |-> dia]]

JsonText(doc) == [wf |-> TRUE, doc |-> doc]
BrokenText == [wf |-> FALSE, doc |-> JNull]
Utf8Bytes(text) == [utf8 |-> TRUE, text |-> text]
InvalidBytes == [utf8 |-> FALSE, text |-> BrokenText]

\* json.loads on one number token: the nearest float
JsonNumber(v) == FScale[FDec[v.n, v.d], v.p]

JsonValue(v) ==
  IF v.j = "absent" THEN PyAbsent
  ELSE IF v.j = "null" THEN PyNone
  ELSE IF v.j = "string" THEN PyStr(v.s)
  ELSE PyNum(JsonNumber(v))

\* json.loads on a well-formed document
JsonLoads(doc) ==
  IF doc.j = "null" THEN PyNone
  ELSE IF doc.j = "array" THEN PyList
  ELSE PyDict([patient_id |-> JsonValue(doc.members.patient_id),
               heart_rate |-> JsonValue(doc.members.heart_rate),
               spo2 |-> JsonValue(doc.members.spo2),
               temperature |-> JsonValue(doc.members.temperature),
               bp_systolic |-> JsonValue(doc.members.bp_systolic),
               bp_diastolic |-> JsonValue(doc.members.bp_diastolic),
               risk_score |-> PyAbsent,
               risk_level |-> PyAbsent])

(***************************************************************************)
(* The transforms of the pipeline.                                         *)
(***************************************************************************)
\* "Decode to String": x.decode("utf-8") raises UnicodeDecodeError on bytes
\* that are not UTF-8; nothing catches it.
DecodeRaises(x) == ~x.utf8

DecodeToString(x) == x.text

\* try: return json.loads(message)  except: return None
parse_json(message) == IF message.wf THEN JsonLoads(message.doc) ELSE PyNone

\* dict.get(key): None for a missing key
Get(record, key) == IF record.d[key].t = "absent" THEN PyNone ELSE record.d[key]

\* a chained comparison lo <= v <= hi (loStrict: lo < v <= hi)
InRange[lo \in Float, loStrict \in BOOLEAN, v \in Float, hi \in Float] ==
  /\ IF loStrict THEN FLt[lo, v] ELSE ~FLt[v, lo]
  /\ ~FLt[hi, v]

\* Between with the strict lower bound taken as inclusive
Between_inclusive(lo, loStrict, v, hi) == InRange[FFromInt[lo], FALSE, v.f, FFromInt[hi]]

\* Between without the upper bound
Between_noupper(lo, loStrict, v, hi) ==
  IF loStrict THEN FLt[FFromInt[lo], v.f] ELSE FLe[FFromInt[lo], v.f]

\* lo <= v <= hi on a number (loStrict: lo < v <= hi)
Between(lo, loStrict, v, hi) == InRange[FFromInt[lo], loStrict, v.f, FFromInt[hi]]

\* Every exception inside is caught and gives False: record.get on a value
\* that is not a dict (AttributeError), an ordering comparison of a str with
\* an int (TypeError).
is_valid_record(record) ==
  IF record = PyNone THEN FALSE
  ELSE IF record.t # "dict" THEN FALSE
  ELSE LET p_id == Get(record, "patient_id")
           hr == Get(record, "heart_rate")
           spo2 == Get(record, "spo2")
           temp == Get(record, "temperature")
           bp_systolic == Get(record, "bp_systolic")
           bp_diastolic == Get(record, "bp_diastolic")
       IN IF \/ p_id = PyNone \/ hr = PyNone \/ spo2 = PyNone
             \/ temp = PyNone \/ bp_systolic = PyNone \/ bp_diastolic = PyNone
          THEN FALSE
          ELSE IF spo2.t # "num" THEN FALSE
          ELSE IF ~Between(0, TRUE, spo2, 100) THEN FALSE
          ELSE IF hr.t # "num" THEN FALSE
          ELSE IF ~Between(60, FALSE, hr, 120) THEN FALSE
          ELSE IF temp.t # "num" THEN FALSE
          ELSE IF ~Between(36, FALSE, temp, 39) THEN FALSE
          ELSE IF bp_systolic.t # "num" THEN FALSE
          ELSE IF ~Between(90, FALSE, bp_systolic, 140) THEN FALSE
          ELSE IF bp_diastolic.t # "num" THEN FALSE
          ELSE IF ~Between(60, FALSE, bp_diastolic, 90) THEN FALSE
          ELSE TRUE

\* enrich_record with the Low threshold mistyped as 0.4
\* (heart_rate / 200) * 0.4 + (temperature / 40) * 0.3 + (1 - spo2 / 100) * 0.3
risk_score[heart_rate \in Float, temperature \in Float, spo2 \in Float] ==
  FAdd[FAdd[FMul[FDivInt[heart_rate, 200], FDec[4, 10]],
            FMul[FDivInt[temperature, 40], FDec[3, 10]]],
       FMul[FSub[FFromInt[1], FDivInt[spo2, 100]], FDec[3, 10]]]

\* if risk_score < 0.3: 'Low'  elif risk_score < 0.6: 'Medium'  else: 'High'
risk_level[score \in Float] ==
  IF FLt[score, FDec[3, 10]] THEN "Low"
  ELSE IF FLt[score, FDec[6, 10]] THEN "Medium"
  ELSE "High"

\* risk_level with the Low threshold mistyped as 0.4
risk_level_low04[score \in Float] ==
  IF FLt[score, FDec[4, 10]] THEN "Low"
  ELSE IF FLt[score, FDec[6, 10]] THEN "Medium"
  ELSE "High"

\* record['risk_score'] = score; record['risk_level'] = level
SetRisk(d, score, level) ==
  PyDict([d EXCEPT !.risk_score = PyNum(score), !.risk_level = PyStr(level[score])])

\* enrich_record with the Low threshold mistyped as 0.4
enrich_record_low04(record) ==
  SetRisk(record.d,
          risk_score[record.d.heart_rate.f, record.d.temperature.f, record.d.spo2.f],
          risk_level_low04)

\* The contents of the dict `record` after enrich_record(record): the
\* function assigns two keys of its argument.
enrich_record(record) ==
  SetRisk(record.d,
          risk_score[record.d.heart_rate.f, record.d.temperature.f, record.d.spo2.f],
          risk_level)

\* `return record`: the value returned is the argument object itself
enrich_record_result(ref) == ref

extract_for_aggregation(record) == <<record.d.patient_id, record>>

\* sum(record[key] for record in records): left to right from 0
RECURSIVE SumFrom(_, _, _, _)
SumFrom(records, key, i, acc) ==
  IF i > Len(records) THEN acc
  ELSE SumFrom(records, key, i + 1, FAdd[acc, records[i].d[key].f])

Sum(records, key) == SumFrom(records, key, 1, FZero)

\* aggregated_records with the Medium test ahead of the High test
aggregated_records_medium_first(key_values) ==
  LET patient_id == key_values[1]
      records == key_values[2]
      count == Len(records)
      risk_levels == {records[i].d.risk_level.s : i \in 1..count}
  IN [patient_id |-> patient_id,
      count |-> count,
      avg_heart_rate |-> FDivInt[Sum(records, "heart_rate"), count],
      avg_spo2 |-> FDivInt[Sum(records, "spo2"), count],
      avg_temperature |-> FDivInt[Sum(records, "temperature"), count],
      avg_bp_systolic |-> FDivInt[Sum(records, "bp_systolic"), count],
      avg_bp_diastolic |-> FDivInt[Sum(records, "bp_diastolic"), count],
      risk_level |-> IF "Medium" \in risk_levels THEN "Medium"
                     ELSE IF "High" \in risk_levels THEN "High"
                     ELSE "Low"]

aggregated_records(key_values) ==
  LET patient_id == key_values[1]
      records == key_values[2]
      count == Len(records)
      risk_levels == {records[i].d.risk_level.s : i \in 1..count}
  IN [patient_id |-> patient_id,
      count |-> count,
      avg_heart_rate |-> FDivInt[Sum(records, "heart_rate"), count],
      avg_spo2 |-> FDivInt[Sum(records, "spo2"), count],
      avg_temperature |-> FDivInt[Sum(records, "temperature"), count],
      avg_bp_systolic |-> FDivInt[Sum(records, "bp_systolic"), count],
      avg_bp_diastolic |-> FDivInt[Sum(records, "bp_diastolic"), count],
      risk_level |-> IF "High" \in risk_levels THEN "High"
                     ELSE IF "Medium" \in risk_levels THEN "Medium"
                     ELSE "Low"]

\* FixedWindows(size).assign: start = ts - (ts - offset) mod size, offset 0
WindowSize == 60

FixedWindows(size, ts) ==
  LET start == ts - (ts % size) IN [start |-> start, end |-> start + size]

Window_bronze_data(ts) == FixedWindows(WindowSize, ts)

\* the second WindowInto with another window size
Window_silver_data_30(ts) == FixedWindows(30, ts)

Window_silver_data(ts) == FixedWindows(WindowSize, ts)

(***************************************************************************)
(* The running pipeline.                                                   *)
(***************************************************************************)
P1 == JStr("P1")
P2 == JStr("P2")

\* spo2 = 2^-60, a positive reading far below one percent
TinySpo2 == JNum(1, 1, -60)

Payloads ==
  { InvalidBytes,
    Utf8Bytes(BrokenText),
    Utf8Bytes(JsonText(JArray)),
    Utf8Bytes(JsonText(JObject(P1, JInt(80), JAbsent, JInt(37), JInt(120), JInt(80)))),
    Utf8Bytes(JsonText(JObject(P1, JStr("fast"), JInt(98), JInt(37), JInt(120), JInt(80)))),
    Utf8Bytes(JsonText(JObject(P1, JInt(121), JInt(98), JInt(37), JInt(120), JInt(80)))),
    Utf8Bytes(JsonText(JObject(P1, JInt(60), JInt(100), JInt(36), JInt(90), JInt(60)))),
    Utf8Bytes(JsonText(JObject(P1, JInt(120), TinySpo2, JInt(39), JInt(140), JInt(90)))),
    Utf8Bytes(JsonText(JObject(P2, JInt(100), JInt(95), JInt(37), JInt(120), JInt(80)))) }

\* instants at which something happens: both edges of every window
Times ==
  {WindowSize * n : n \in 0..MaxWindow}
    \cup {WindowSize * n + (WindowSize - 1) : n \in 0..(MaxWindow - 1)}

SetMin(S) == CHOOSE x \in S : \A y \in S : x <= y

\* Pub/Sub timestamps are publish times; the source's watermark does not pass
\* the publish time of a message it has not delivered yet.
Watermark == SetMin({clock} \cup {m.ts : m \in sub})

\* the orders in which the members of a finite set can be iterated
Orderings(S) ==
  {f \in [1..Cardinality(S) -> S] : \A i, j \in 1..Cardinality(S) : f[i] = f[j] => i = j}

GroupOf(w, k) == {e \in gbk : e.window = w /\ e.key = k}

PipeInit ==
  /\ clock = 0
  /\ sub = {}
  /\ published = 0
  /\ pulled = {}
  /\ bronze = EmptyBag
  /\ silver = EmptyBag
  /\ gbk = {}
  /\ fired = {}
  /\ gold = EmptyBag
  /\ failed = FALSE

ValidIdle == vText = BrokenText /\ vOut = "idle"

EnrichIdle == heap = <<>> /\ before = <<>> /\ ret = <<>>

AggIdle == aKey = PyNone /\ aGroup = <<>> /\ aOut = {}

Init == PipeInit /\ ValidIdle /\ EnrichIdle /\ AggIdle

\* A publisher sends one message; Pub/Sub stamps it with the publish time.
\* Nothing looks at the bytes before the message is pulled, so they are drawn
\* when it is.
Publish ==
  /\ published < MaxMsgs
  /\ published' = published + 1
  /\ sub' = sub \cup {[id |-> published + 1, ts |-> clock]}
  /\ UNCHANGED <<clock, pulled, bronze, silver, gbk, fired, gold, failed>>

Tick(t) ==
  /\ t > clock
  /\ clock' = t
  /\ UNCHANGED <<sub, published, pulled, bronze, silver, gbk, fired, gold, failed>>

\* The element-wise stages applied to one payload: Decode to String, Parse
\* JSON, Filter Valid Records, Enrich Record, Key by patient ID.  `raises`
\* when the decode throws, `keep` when the filter passes the record.
RecordStages(x, record) ==
  IF is_valid_record(record)
  THEN [raises |-> FALSE, line |-> x, keep |-> TRUE,
        kv |-> extract_for_aggregation(enrich_record(record))]
  ELSE [raises |-> FALSE, line |-> x, keep |-> FALSE, kv |-> <<>>]

ElementStages(data) ==
  IF DecodeRaises(data)
  THEN [raises |-> TRUE, line |-> BrokenText, keep |-> FALSE, kv |-> <<>>]
  ELSE RecordStages(DecodeToString(data), parse_json(DecodeToString(data)))

\* the stages are functions of the payload alone
StageOutput == [data \in Payloads |-> ElementStages(data)]

\* One message through the fused stages: ReadFromPubSub, the element-wise
\* stages, the two WindowInto, the bronze and silver writes, and into the
\* GroupByKey buffer.
ProcessMessage(m, data) ==
  /\ ~failed
  /\ m \in sub
  /\ sub' = sub \ {m}
  /\ pulled' = pulled \cup {[id |-> m.id, ts |-> m.ts, data |-> data]}
  /\ \E out \in {StageOutput[data]} :
     IF out.raises
     THEN /\ failed' = TRUE
          /\ UNCHANGED <<bronze, silver, gbk>>
     ELSE /\ failed' = FALSE
          /\ bronze' = bronze (+) SetToBag(
               {[id |-> m.id, window |-> Window_bronze_data(m.ts), line |-> out.line]})
          /\ IF out.keep
             THEN LET w == Window_silver_data(m.ts)
                  IN /\ silver' = silver (+) SetToBag(
                          {[id |-> m.id, window |-> w, record |-> out.kv[2]]})
                     /\ gbk' = gbk \cup
                          {[id |-> m.id, window |-> w, key |-> out.kv[1], value |-> out.kv[2]]}
             ELSE UNCHANGED <<silver, gbk>>
  /\ UNCHANGED <<clock, published, fired, gold>>

\* FireGroup that does not wait for the watermark
FireGroup_early(w, k, order) ==
  /\ ~failed
  /\ <<w, k>> \notin fired
  /\ GroupOf(w, k) # {}
  /\ LET records == [i \in 1..Len(order) |-> order[i].value]
     IN gold' = gold (+) SetToBag({[window |-> w, row |-> aggregated_records(<<k, records>>)]})
  /\ fired' = fired \cup {<<w, k>>}
  /\ gbk' = gbk \ GroupOf(w, k)
  /\ UNCHANGED <<clock, sub, published, pulled, bronze, silver, failed>>

\* GroupByKey with the default trigger: one pane per (window, key), emitted
\* when the watermark passes the end of the window, and the state of the pane
\* is released.  The iteration order of the grouped values is not specified:
\* `order` is any ordering of the buffered members.  The pane goes through
\* "Aggregate per patient" to "Write to BigQuery".
FireGroup(w, k, order) ==
  /\ ~failed
  /\ <<w, k>> \notin fired
  /\ w.end <= Watermark
  /\ GroupOf(w, k) # {}
  /\ LET records == [i \in 1..Len(order) |-> order[i].value]
     IN gold' = gold (+) SetToBag({[window |-> w, row |-> aggregated_records(<<k, records>>)]})
  /\ fired' = fired \cup {<<w, k>>}
  /\ gbk' = gbk \ GroupOf(w, k)
  /\ UNCHANGED <<clock, sub, published, pulled, bronze, silver, failed>>

PublishStep == Publish

TickStep == \E t \in Times : Tick(t)

ProcessStep == \E m \in sub : \E data \in Payloads : ProcessMessage(m, data)

FireStep ==
  \E wk \in {<<e.window, e.key>> : e \in gbk} :
    \E order \in Orderings(GroupOf(wk[1], wk[2])) :
      FireGroup(wk[1], wk[2], order)

Next ==
  \/ PublishStep /\ UNCHANGED <<validVars, enrichVars, aggVars>>
  \/ TickStep /\ UNCHANGED <<validVars, enrichVars, aggVars>>
  \/ ProcessStep /\ UNCHANGED <<validVars, enrichVars, aggVars>>
  \/ FireStep /\ UNCHANGED <<validVars, enrichVars, aggVars>>

Spec == Init /\ [][Next]_vars

(***************************************************************************)
(* is_valid_record on its own: one call on the parse of one JSON text.     *)
(***************************************************************************)
Choices(inside, outside) == {JAbsent} \cup inside \cup outside

ValidatorTexts ==
  {JsonText(JNull), JsonText(JArray)} \cup
  {JsonText(JObject(pid, hr, spo2, temp, sys, dia)) :
     pid \in {JAbsent, P1},
     hr \in Choices({JInt(60), JInt(61), JInt(119), JInt(120)}, {JInt(59), JInt(121)}),
     spo2 \in Choices({JNum(1, 10000, 0), JNum(999999, 10000, 0), JInt(100)},
                      {JInt(-1), JInt(0), JNum(1000001, 10000, 0)}),
     temp \in Choices({JInt(36), JInt(39)}, {JInt(35), JInt(40)}),
     sys \in Choices({JInt(90), JInt(140)}, {JInt(89), JInt(141)}),
     dia \in Choices({JInt(60), JInt(90)}, {JInt(59), JInt(91)})}

InitValid ==
  /\ vText \in ValidatorTexts
  /\ vOut = "pending"
  /\ PipeInit /\ EnrichIdle /\ AggIdle

ValidateCall ==
  /\ vOut = "pending"
  /\ vOut' = IF is_valid_record(parse_json(vText)) THEN "True" ELSE "False"
  /\ UNCHANGED <<vText, pipeVars, enrichVars, aggVars>>

NextValid == ValidateCall

SpecValid == InitValid /\ [][NextValid]_vars

(***************************************************************************)
(* enrich_record on its own: dict objects live in a heap, the call gets a  *)
(* reference and returns one.                                              *)
(***************************************************************************)
Refs == {1}

EnrichReadings ==
  {JObject(P1, JInt(hr), JInt(spo2), JInt(temp), JInt(120), JInt(80)) :
     hr \in {60, 100, 114, 117, 120},
     spo2 \in {1, 71, 73, 75, 95, 100},
     temp \in {36, 37, 38, 39}}

InitEnrich ==
  /\ before \in [Refs -> EnrichReadings]
  /\ heap = [r \in Refs |-> JsonLoads(before[r])]
  /\ \A r \in Refs : is_valid_record(heap[r])
  /\ ret = [r \in Refs |-> 0]
  /\ PipeInit /\ ValidIdle /\ AggIdle

EnrichCall(r) ==
  /\ ret[r] = 0
  /\ heap' = [heap EXCEPT ![r] = enrich_record(heap[r])]
  /\ ret' = [ret EXCEPT ![r] = enrich_record_result(r)]
  /\ UNCHANGED <<before, pipeVars, validVars, aggVars>>

NextEnrich == \E r \in Refs : EnrichCall(r)

SpecEnrich == InitEnrich /\ [][NextEnrich]_vars

(***************************************************************************)
(* aggregated_records on its own: one group, handed over in any order.     *)
(***************************************************************************)
AggReadings ==
  { JObject(P1, JInt(80), JInt(98), JNum(361, 10, 0), JInt(120), JInt(80)),
    JObject(P1, JInt(100), JInt(97), JNum(362, 10, 0), JInt(118), JInt(79)),
    JObject(P1, JInt(61), JInt(99), JNum(363, 10, 0), JInt(121), JInt(83)),
    JObject(P1, JInt(120), JInt(50), JInt(39), JInt(140), JInt(90)),
    JObject(P1, JInt(100), JInt(95), JInt(37), JInt(120), JInt(80)) }

AggRecords == {enrich_record(JsonLoads(doc)) : doc \in AggReadings}

Perms(n) == {f \in [1..n -> 1..n] : \A i, j \in 1..n : f[i] = f[j] => i = j}

Permute(s, f) == [i \in 1..Len(s) |-> s[f[i]]]

InitAgg ==
  /\ aKey = JsonValue(P1)
  /\ aGroup \in UNION {[1..n -> AggRecords] : n \in 1..MaxGroup}
  /\ aOut = {}
  /\ PipeInit /\ ValidIdle /\ EnrichIdle

AggregateCall(order) ==
  /\ aOut' = aOut \cup {aggregated_records(<<aKey, Permute(aGroup, order)>>)}
  /\ aOut' # aOut
  /\ UNCHANGED <<aKey, aGroup, pipeVars, validVars, enrichVars>>

NextAgg == \E order \in Perms(Len(aGroup)) : AggregateCall(order)

SpecAgg == InitAgg /\ [][NextAgg]_vars

(***************************************************************************)
(* Exact arithmetic on number tokens, for stating the properties without   *)
(* the float operators: the token [n, d, p] with p <= 0 is n / (d * 2^-p). *)
(***************************************************************************)
RECURSIVE ScaledGe(_, _, _)
\* a * 2^q >= n, for a >= 0
ScaledGe(a, q, n) ==
  IF a >= n THEN TRUE
  ELSE IF q = 0 \/ a = 0 THEN FALSE
  ELSE ScaledGe(2 * a, q - 1, n)

RECURSIVE ScaledGt(_, _, _)
\* a * 2^q > n, for a >= 0
ScaledGt(a, q, n) ==
  IF a > n THEN TRUE
  ELSE IF q = 0 \/ a = 0 THEN FALSE
  ELSE ScaledGt(2 * a, q - 1, n)

TokenLe(tok, k) == ScaledGe(k * tok.d, -tok.p, tok.n)
TokenGe(tok, k) == ~ScaledGt(k * tok.d, -tok.p, tok.n)
TokenGt(tok, k) == ~ScaledGe(k * tok.d, -tok.p, tok.n)

\* the six fields are present and the five vitals are in their ranges
NominalDoc(doc) ==
  /\ doc.j = "object"
  /\ doc.members.patient_id.j \notin {"absent", "null"}
  /\ \A key \in VitalKeys : doc.members[key].j = "number"
  /\ TokenGt(doc.members.spo2, 0) /\ TokenLe(doc.members.spo2, 100)
  /\ TokenGe(doc.members.heart_rate, 60) /\ TokenLe(doc.members.heart_rate, 120)
  /\ TokenGe(doc.members.temperature, 36) /\ TokenLe(doc.members.temperature, 39)
  /\ TokenGe(doc.members.bp_systolic, 90) /\ TokenLe(doc.members.bp_systolic, 140)
  /\ TokenGe(doc.members.bp_diastolic, 60) /\ TokenLe(doc.members.bp_diastolic, 90)

NominalText(text) == text.wf /\ NominalDoc(text.doc)

NominalData(data) == data.utf8 /\ NominalText(data.text)

\* number of elements of a bag that satisfy a condition
CountIn(B, Cond(_)) ==
  BagCardinality([e \in {x \in BagToSet(B) : Cond(x)} |-> B[e]])

\* the pulled message an output element came from
MessageOf(id) == CHOOSE m \in pulled : m.id = id

\* a float that is a whole number below 2^28, and that number
FIsInt(f) == f.m = <<>> \/ f.e >= 0 \/ BShl[BShr[f.m, -f.e], -f.e] = f.m

FToInt(f) ==
  IF f.m = <<>> THEN 0
  ELSE LET q == BShr[f.m, -f.e] IN Limb(q, 1) + LimbBase * Limb(q, 2)

(***************************************************************************)
(* C1: for null, for a non-object and for every record with any subset of  *)
(* the six fields absent and values on, next to and between the range      *)
(* boundaries, is_valid_record returns true exactly when the input is a    *)
(* record, the six fields are present, 0 < spo2 <= 100, 60 <= heart_rate   *)
(* <= 120, 36 <= temperature <= 39, 90 <= bp_systolic <= 140 and           *)
(* 60 <= bp_diastolic <= 90.                                               *)
(***************************************************************************)
C1_ValidatorContract ==
  vOut # "pending" => ((vOut = "True") <=> NominalText(vText))

C1_Witness ==
  /\ vOut = "True"
  /\ vText.doc.members.spo2 = JInt(100)
  /\ vText.doc.members.heart_rate = JInt(60)
  /\ vText.doc.members.bp_systolic = JInt(140)

(***************************************************************************)
(* C2: after any sequence of messages the bronze sink has received exactly *)
(* one element per message pulled, whatever the payload (bytes that are    *)
(* not UTF-8 included).                                                    *)
(***************************************************************************)
C2_BronzeCountsPulled == BagCardinality(bronze) = Cardinality(pulled)

(***************************************************************************)
(* C3: no message, however malformed, brings a stage of the pipeline to an *)
(* error state.                                                            *)
(***************************************************************************)
C3_NoStageFails == failed = FALSE

(***************************************************************************)
(* C4: a pulled message has one element in silver if its payload is a      *)
(* record the validator accepts and none otherwise (undecodable, not JSON, *)
(* not an object, a field missing, not a number or out of range), and the  *)
(* count of every gold summary is the number of accepted messages of its   *)
(* patient and window.                                                     *)
(***************************************************************************)
C4_SilverIffValid ==
  /\ \A m \in pulled :
       CountIn(silver, LAMBDA e : e.id = m.id) = IF NominalData(m.data) THEN 1 ELSE 0
  /\ BagCardinality(silver) = Cardinality({m \in pulled : NominalData(m.data)})
  /\ \A g \in BagToSet(gold) :
       g.row.count =
         Cardinality({m \in pulled :
           /\ NominalData(m.data)
           /\ g.window.start <= m.ts /\ m.ts < g.window.end
           /\ JsonValue(m.data.text.doc.members.patient_id) = g.row.patient_id})

C4_Witness ==
  /\ \E m \in pulled : NominalData(m.data)
  /\ \E m \in pulled : m.data.utf8 /\ m.data.text.wf /\ ~NominalData(m.data)
  /\ BagCardinality(silver) = 1
  /\ \E g \in BagToSet(gold) : g.row.count = 1

(***************************************************************************)
(* C5: for integer readings the level enrich_record assigns is the bucket  *)
(* of the exact score: with E = 8*heart_rate + 30*temperature +            *)
(* 12*(100 - spo2) (the score times 4000), Low when E < 1200, Medium when  *)
(* 1200 <= E < 2400, High otherwise.                                       *)
(***************************************************************************)
C5_ExactBuckets ==
  \A r \in DOMAIN ret :
    ret[r] # 0 =>
      LET mem == before[r].members
          E == 8 * mem.heart_rate.n + 30 * mem.temperature.n + 12 * (100 - mem.spo2.n)
      IN heap[r].d.risk_level.s =
           (IF E < 1200 THEN "Low" ELSE IF E < 2400 THEN "Medium" ELSE "High")

(***************************************************************************)
(* C6: enrich_record leaves its argument as it was (no risk_score, no      *)
(* risk_level added) and returns a separate value.                         *)
(***************************************************************************)
C6_EnrichLeavesInput ==
  \A r \in DOMAIN ret :
    ret[r] # 0 => (heap[r] = JsonLoads(before[r]) /\ ret[r] # r)

(***************************************************************************)
(* C7 as stated: the summary has the key's patient_id, count = size of the *)
(* group, the most severe level, and is the same for every order of the    *)
(* group.                                                                  *)
(***************************************************************************)
MostSevere(levels) ==
  IF \E i \in DOMAIN levels : levels[i] = "High" THEN "High"
  ELSE IF \E i \in DOMAIN levels : levels[i] = "Medium" THEN "Medium"
  ELSE "Low"

AvgKey ==
  [heart_rate |-> "avg_heart_rate", spo2 |-> "avg_spo2",
   temperature |-> "avg_temperature", bp_systolic |-> "avg_bp_systolic",
   bp_diastolic |-> "avg_bp_diastolic"]

RECURSIVE IntSum(_, _, _)
IntSum(records, key, i) ==
  IF i > Len(records) THEN 0
  ELSE FToInt(records[i].d[key].f) + IntSum(records, key, i + 1)

\* avg is the float nearest to total/count: equal to it when count divides
\* total, strictly between its floor and ceiling otherwise
MeanOfInts(avg, total, count) ==
  IF total % count = 0 THEN avg = FFromInt[total \div count]
  ELSE /\ FLt[FFromInt[total \div count], avg]
       /\ FLt[avg, FFromInt[(total \div count) + 1]]

SummaryBasics(s) ==
  /\ s.patient_id = aKey
  /\ s.count = Len(aGroup)
  /\ s.risk_level = MostSevere([i \in 1..Len(aGroup) |-> aGroup[i].d.risk_level.s])

C8_OnePanePerWindowKey ==
  \A g \in BagToSet(gold) :
    /\ CopiesIn(g, gold) = 1
    /\ \A h \in BagToSet(gold) :
         (h.window = g.window /\ h.row.patient_id = g.row.patient_id) => h = g
    /\ g.window.end <= Watermark
    /\ g.row.count >= 1
    /\ g.row.count =
         CountIn(silver, LAMBDA e : e.window = g.window
                                    /\ e.record.d.patient_id = g.row.patient_id)

C8_Witness ==
  /\ \E g \in BagToSet(gold) : g.row.count = 2
  /\ BagCardinality(silver) = 2
  /\ fired # {} /\ gbk = {}

(***************************************************************************)
(* C9: the window of an element is [60n, 60n + 60) with n = floor(ts/60),  *)
(* the only window of that grid that holds ts, whatever the payload; an    *)
(* element of silver is in the window its message has in bronze.           *)
(***************************************************************************)
OnGrid(window, ts) ==
  /\ window.start = WindowSize * (ts \div WindowSize)
  /\ window.end = window.start + WindowSize
  /\ window.start <= ts /\ ts < window.end
  /\ \A n \in 0..(MaxWindow + 1) :
       (WindowSize * n <= ts /\ ts < WindowSize * n + WindowSize) <=> (window.start = WindowSize * n)

C9_WindowByTimestamp ==
  /\ \A b \in BagToSet(bronze) : OnGrid(b.window, MessageOf(b.id).ts)
  /\ \A e \in BagToSet(silver) :
       /\ OnGrid(e.window, MessageOf(e.id).ts)
       /\ \E b \in BagToSet(bronze) : b.id = e.id /\ b.window = e.window

C9_Witness ==
  /\ \E e \in BagToSet(silver) : MessageOf(e.id).ts = 59 /\ e.window.start = 0
  /\ \E e \in BagToSet(silver) : MessageOf(e.id).ts = 60 /\ e.window.start = 60
  /\ BagCardinality(bronze) = 2

(***************************************************************************)
(* C10 as stated: every record in silver has 0.39 <= risk_score < 0.8325   *)
(* and a level of Medium or High, and no summary in gold has level Low.    *)
(***************************************************************************)
NeverLow ==
  /\ \A e \in BagToSet(silver) : e.record.d.risk_level.s \in {"Medium", "High"}
  /\ \A g \in BagToSet(gold) : g.row.risk_level \in {"Medium", "High"}

C10_ScoreBelowBound ==
  /\ NeverLow
  /\ \A e \in BagToSet(silver) :
       /\ FLe[FDec[39, 100], e.record.d.risk_score.f]
       /\ FLt[e.record.d.risk_score.f, FDec[8325, 10000]]

(***************************************************************************)
(* C10 amended: every record in silver has 0.39 <= risk_score <= 0.8325    *)
(* (the upper bound is reached) and a level of Medium or High, and no      *)
(* summary in gold has level Low.                                          *)
(***************************************************************************)
C10_ScoreRange ==
  /\ NeverLow
  /\ \A e \in BagToSet(silver) :
       /\ FLe[FDec[39, 100], e.record.d.risk_score.f]
       /\ FLe[e.record.d.risk_score.f, FDec[8325, 10000]]

C10_Witness ==
  /\ \E e \in BagToSet(silver) : e.record.d.risk_score.f = FDec[39, 100]
  /\ \E e \in BagToSet(silver) : e.record.d.risk_score.f = FDec[8325, 10000]
  /\ \E g \in BagToSet(gold) : g.row.count = 2

====
